---- MODULE Spec2Model ----
(***************************************************************************)
(* Model of src/app.py: the bubble pipeline (nonzero counts, ranking,      *)
(* aggregation by label, coordinate binding, derived columns, the two      *)
(* data tables) and the three client-side callbacks (selection, zoom,      *)
(* slider).                                                                *)
(*                                                                         *)
(* Conventions.  Python/JS indices are 0-based and are kept 0-based as     *)
(* VALUES (feature indices, example rows, selected indices); TLA+          *)
(* sequences are 1-based, so element i of a list is seq[i + 1].            *)
(* Activations are held in thousandths (0.1 is 100).  A text is a          *)
(* sequence of one-character strings.                                      *)
(***************************************************************************)
EXTENDS Integers, Sequences, FiniteSets, TLC

VARIABLES
    pc,                  \* position in the script / "ready" once the page is served
    feature_activations, \* column c of the matrix, run-compressed (see Activation)
    feature_labels,      \* dict: feature index -> label
    nonzero_features,    \* per ranked column: number of examples with activation > 0
    top_features,        \* the slice top_features[100:] the loop iterates over
    pos,                 \* number of loop iterations of line 28 already done
    texts, numbers, expansions_map,
    coords_2d, x_coords, y_coords,
    circle_sizes, truncated_texts, expansions_list,
    full_source, source, \* the two ColumnDataSource tables
    div,                 \* div.text
    selected,            \* source.selected.indices
    labels,              \* labels.visible
    x_range, y_range,    \* p.x_range / p.y_range, each [start, end]
    slider               \* [start, end, value]

vars ==
    << pc, feature_activations, feature_labels, nonzero_features, top_features,
       pos, texts, numbers, expansions_map, coords_2d, x_coords, y_coords,
       circle_sizes, truncated_texts, expansions_list, full_source, source,
       div, selected, labels, x_range, y_range, slider >>

(***************************************************************************)
(* Bounds of the model.                                                    *)
(***************************************************************************)
\* features whose label and activation column are chosen freely
NFree ==
    2
\* examples (rows of the activation matrix)
NRows ==
    60
\* largest number of rows of the coordinate file
MaxCoords ==
    3
\* axis range starts are drawn from 0 .. MaxStart
MaxStart ==
    1
\* axis range ends are drawn from threshold_x - 1 .. MaxRange
MaxRange ==
    6
\* largest number of simultaneously selected points
MaxSel ==
    2

(***************************************************************************)
(* Program constants.                                                      *)
(***************************************************************************)
\* top_features[100:]
SkipTop ==
    100
\* nonzero_features[i] > 50
MinCount ==
    50
\* [::-1][:10]
TopK ==
    10
\* feature_activations[j, i] > 0.1, in thousandths
ActThreshold ==
    100
\* t[:20] / len(t) > 20
TruncLen ==
    20
threshold_x ==
    5
threshold_y ==
    5
min_nonzero ==
    5
\* max(numbers) if numbers else 100
DefaultMax ==
    100

Min(a, b) ==
    IF a <= b THEN a ELSE b

Max(a, b) ==
    IF a >= b THEN a ELSE b

SetMax(S) ==
    CHOOSE m \in S : \A n \in S : n <= m

(***************************************************************************)
(* Input files.  A matrix column is held as [hot, pad]: rows 0 ..          *)
(* Len(hot)-1 hold the listed values, the next pad rows hold small,        *)
(* pairwise distinct positive values (row r holds r + 1 thousandths,       *)
(* never above 0.1), and the remaining rows hold 0.                        *)
(***************************************************************************)
Rows ==
    0 .. NRows - 1

\* 100 filler features plus one last column, after the NFree free features
NCols ==
    NFree + SkipTop + 1

Alphabet ==
    << "a", "b", "c", "d", "e", "f", "g", "h", "i", "j", "k", "l", "m",
       "n", "o", "p", "q", "r", "s", "t", "u", "v", "w", "x", "y", "z" >>

\* a 20-character label, a 21-character label whose first 20 characters
\* are the former, and a short one
Label20 ==
    SubSeq(Alphabet, 1, TruncLen)

Label21 ==
    SubSeq(Alphabet, 1, TruncLen + 1)

LabelShort ==
    << "x", "y", "z" >>

LabelLast ==
    << "z" >>

\* 12 examples above 0.1 (ties at 0.3 and, across the cut at 10, at 0.2); 51 nonzero
ColMany ==
    [hot |-> << 500, 900, 300, 200, 700, 800, 250, 300, 200, 600, 400, 150 >>,
     pad |-> 39]

\* one example at exactly 0.1, one at 0, two above 0.1; 53 nonzero
ColFew ==
    [hot |-> << 100, 250, 0, 101 >>, pad |-> 50]

\* no example above 0.1; 52 nonzero
ColCold ==
    [hot |-> << >>, pad |-> 52]

\* exactly 50 nonzero
ColFifty ==
    [hot |-> << 200 >>, pad |-> 49]

\* 58 nonzero: more than every filler, so the feature ranks in the top 100
ColTop ==
    [hot |-> << 300, 400 >>, pad |-> 56]

\* The NFree + 1 lowest fillers have pairwise distinct counts 53, 54, ...;
\* the others tie above them (their mutual order is never observed: only
\* top_features[100:] is read, and it holds at most NFree fillers).
FillerColumn(c) ==
    [hot |-> << >>, pad |-> 53 + Min(c - NFree, NFree)]

\* what a free feature may be: lab is << >> (no entry in feature_labels)
\* or << label >>
FeatureChoices ==
    { [lab |-> << >>, col |-> ColFew],
      [lab |-> << Label20 >>, col |-> ColMany],
      [lab |-> << Label20 >>, col |-> ColFew],
      [lab |-> << Label20 >>, col |-> ColTop],
      [lab |-> << Label21 >>, col |-> ColMany],
      [lab |-> << Label21 >>, col |-> ColFifty],
      [lab |-> << LabelShort >>, col |-> ColCold],
      [lab |-> << LabelShort >>, col |-> ColFew] }

\* feature_activations[j, i]
Activation(j, i) ==
    LET col == feature_activations[i]
    IN  IF j < Len(col.hot) THEN col.hot[j + 1]
        ELSE IF j < Len(col.hot) + col.pad THEN j + 1
        ELSE 0

\* ind_to_question[j]
ind_to_question ==
    [j \in Rows |-> [question |-> j]]

\* row k (0-based) of the coordinate file
CoordRow(k) ==
    << 2 * k - 3, 7 - 3 * k >>

InputFiles(choice, lastLabelled) ==
    /\ feature_activations =
         [c \in 0 .. NCols - 1 |->
            IF c < NFree THEN choice[c].col ELSE FillerColumn(c)]
    /\ feature_labels =
         [c \in {f \in 0 .. NFree - 1 : choice[f].lab # << >>}
                \cup (IF lastLabelled THEN {NCols - 1} ELSE {}) |->
            IF c < NFree THEN choice[c].lab[1] ELSE LabelLast]

EmptyTable ==
    [x |-> << >>, y |-> << >>, text |-> << >>, truncated |-> << >>,
     number |-> << >>, size |-> << >>, expansions |-> << >>]

NaN ==
    << >>

Untouched ==
    /\ pc = "start"
    /\ nonzero_features = << >>
    /\ top_features = << >>
    /\ pos = 0
    /\ texts = << >>
    /\ numbers = << >>
    /\ expansions_map = << >>
    /\ coords_2d = << >>
    /\ x_coords = << >>
    /\ y_coords = << >>
    /\ circle_sizes = << >>
    /\ truncated_texts = << >>
    /\ expansions_list = << >>
    /\ full_source = EmptyTable
    /\ source = EmptyTable
    /\ div = [kind |-> "unset", text |-> << >>, items |-> << >>]
    /\ selected = << >>
    /\ labels = FALSE
    /\ x_range = [start |-> NaN, end |-> NaN]
    /\ y_range = [start |-> NaN, end |-> NaN]
    /\ slider = [start |-> 0, end |-> 0, value |-> 0]

\* the state after the three loads of lines 14-19
Init ==
    /\ \E choice \in [0 .. NFree - 1 -> FeatureChoices], lastLabelled \in BOOLEAN :
          InputFiles(choice, lastLabelled)
    /\ Untouched

(***************************************************************************)
(* Lines 21-22: nonzero counts and ranking.                                *)
(***************************************************************************)
\* columns of feature_activations[:, :max(feature_labels.keys())]
RankedColumns ==
    0 .. Min(NCols, SetMax(DOMAIN feature_labels)) - 1

\* ((...) > 0).sum(axis=0) for one column
NonzeroCount(i) ==
    Cardinality({j \in Rows : Activation(j, i) > 0})

\* The last k entries of np.argsort(count)[::-1] over the features S, for
\* every order argsort may give to equal counts: the last entry is any
\* feature of least count, and so on upwards.
RECURSIVE Lowest(_, _, _)
Lowest(count, S, k) ==
    IF k <= 0 \/ S = {} THEN {<< >>}
    ELSE LET least == {i \in S : \A o \in S : count[i] <= count[o]}
         IN  UNION { { Append(t, i) : t \in Lowest(count, S \ {i}, k - 1) } :
                     i \in least }

\* how many entries top_features[100:] has
RestLen(n) ==
    Max(n - SkipTop, 0)

Rank ==
    /\ pc = "start"
    /\ IF DOMAIN feature_labels = {}
       THEN \* max() of an empty sequence raises
            /\ pc' = "aborted"
            /\ UNCHANGED << nonzero_features, top_features >>
       ELSE /\ nonzero_features' = [i \in RankedColumns |-> NonzeroCount(i)]
            /\ top_features' \in Lowest(nonzero_features', RankedColumns,
                                        RestLen(Cardinality(RankedColumns)))
            /\ pc' = "aggregate"
    /\ UNCHANGED << feature_activations, feature_labels, pos, texts, numbers,
                    expansions_map, coords_2d, x_coords, y_coords, circle_sizes,
                    truncated_texts, expansions_list, full_source, source, div,
                    selected, labels, x_range, y_range, slider >>

(***************************************************************************)
(* Lines 28-42: one iteration of the aggregation loop.                     *)
(***************************************************************************)
\* The first k entries of np.argsort(column i)[::-1] over the rows S, for
\* every order argsort may give to equal activations.
RECURSIVE Highest(_, _, _)
Highest(i, S, k) ==
    IF k <= 0 \/ S = {} THEN {<< >>}
    ELSE LET top == {j \in S : \A o \in S : Activation(j, i) >= Activation(o, i)}
         IN  UNION { { << j >> \o t : t \in Highest(i, S \ {j}, k - 1) } :
                     j \in top }

\* line 37 with >= for >
IsExpansionInclusive(j, i) ==
    Activation(j, i) >= ActThreshold

\* line 37
IsExpansion(j, i) ==
    Activation(j, i) > ActThreshold

\* lines 36-38 for the rows js, in order
RECURSIVE CollectExpansions(_, _)
CollectExpansions(js, i) ==
    IF js = << >> THEN << >>
    ELSE (IF IsExpansion(Head(js), i) THEN << ind_to_question[Head(js)] >> ELSE << >>)
         \o CollectExpansions(Tail(js), i)

\* texts.index(label), 1-based
IndexOf(seq, e) ==
    CHOOSE k \in 1 .. Len(seq) : seq[k] = e /\ \A m \in 1 .. k - 1 : seq[m] # e

InSeq(seq, e) ==
    \E k \in 1 .. Len(seq) : seq[k] = e

\* line 29 with >= for >
EligibleFromLimit(i) ==
    i \in DOMAIN feature_labels /\ nonzero_features[i] >= MinCount

\* line 29
Eligible(i) ==
    i \in DOMAIN feature_labels /\ nonzero_features[i] > MinCount

\* line 42 keeping the smaller count
MergeCountSmaller(old, new) ==
    Min(old, new)

\* line 42
MergeCount(old, new) ==
    Max(old, new)

\* d[key] = value on a dict held as a function
Put(d, key, value) ==
    [k \in DOMAIN d \cup {key} |-> IF k = key THEN value ELSE d[k]]

AggregateStep ==
    /\ pc = "aggregate"
    /\ pos < Len(top_features)
    /\ pos' = pos + 1
    /\ LET i == top_features[pos + 1]
       IN  IF ~Eligible(i)
           THEN UNCHANGED << texts, numbers, expansions_map >>
           ELSE LET label == feature_labels[i]
                IN  IF ~InSeq(texts, label)
                    THEN /\ texts' = Append(texts, label)
                         /\ numbers' = Append(numbers, nonzero_features[i])
                         /\ \E js \in Highest(i, Rows, TopK) :
                               expansions_map' =
                                 Put(expansions_map, label, CollectExpansions(js, i))
                    ELSE LET idx == IndexOf(texts, label)
                         IN  /\ numbers' =
                                  [numbers EXCEPT
                                     ![idx] = MergeCount(@, nonzero_features[i])]
                             /\ UNCHANGED << texts, expansions_map >>
    /\ UNCHANGED << pc, feature_activations, feature_labels, nonzero_features,
                    top_features, coords_2d, x_coords, y_coords, circle_sizes,
                    truncated_texts, expansions_list, full_source, source, div,
                    selected, labels, x_range, y_range, slider >>

(***************************************************************************)
(* Lines 47-68: coordinate binding and the derived per-bubble columns.     *)
(***************************************************************************)
\* coords_2d[:, c], c = 0 or 1
CoordColumn(coords, c) ==
    [k \in 1 .. Len(coords) |-> coords[k][c + 1]]

\* line 54 with the coordinate count left out
MinLenTextsOnly(a, b) ==
    a

\* line 54
MinLen(a, b) ==
    Min(a, b)

\* seq[:n]
Slice(seq, n) ==
    SubSeq(seq, 1, Min(n, Len(seq)))

\* n/2 is a true division: the quotient is held as a fraction
Half(n) ==
    [num |-> n, den |-> 2]

Ellipsis ==
    << ".", ".", "." >>

\* line 61 with >= for >
TruncateFromLimit(t) ==
    IF Len(t) >= TruncLen THEN Slice(t, TruncLen) \o Ellipsis ELSE t

\* line 61, for one text
Truncate(t) ==
    IF Len(t) > TruncLen THEN Slice(t, TruncLen) \o Ellipsis ELSE t

\* expansions_map.get(t, [])
GetOrEmpty(d, key) ==
    IF key \in DOMAIN d THEN d[key] ELSE << >>

Bind ==
    /\ pc = "aggregate"
    /\ pos >= Len(top_features)
    /\ \E n \in 0 .. MaxCoords :
          coords_2d' = [k \in 1 .. n |-> CoordRow(k - 1)]
    /\ LET min_len == MinLen(Len(texts), Len(CoordColumn(coords_2d', 0)))
       IN  /\ texts' = Slice(texts, min_len)
           /\ numbers' = Slice(numbers, min_len)
           /\ x_coords' = Slice(CoordColumn(coords_2d', 0), min_len)
           /\ y_coords' = Slice(CoordColumn(coords_2d', 1), min_len)
    /\ circle_sizes' = [k \in 1 .. Len(numbers') |-> Half(numbers'[k])]
    /\ truncated_texts' = [k \in 1 .. Len(texts') |-> Truncate(texts'[k])]
    /\ expansions_list' =
         [k \in 1 .. Len(texts') |-> GetOrEmpty(expansions_map, texts'[k])]
    /\ pc' = "bound"
    /\ UNCHANGED << feature_activations, feature_labels, nonzero_features,
                    top_features, pos, expansions_map, full_source, source, div,
                    selected, labels, x_range, y_range, slider >>

(***************************************************************************)
(* Lines 74-198: the two tables, the panel, the label set, the slider.     *)
(***************************************************************************)
\* div.text as markup: kind "placeholder" is the <i>Click a bubble...</i>
\* message, "none" the <b>No expansions found for:</b> text message, "list"
\* the text followed by one <li> per entry of items; "unset" before line 87
Panel(kind, text, items) ==
    [kind |-> kind, text |-> text, items |-> items]

Placeholder ==
    Panel("placeholder", << >>, << >>)

\* the least element of a nonempty set of numbers
SetMin(S) ==
    CHOOSE m \in S : \A n \in S : m <= n

\* line 190 with min for max
SliderEndMin(ns) ==
    IF ns # << >> THEN SetMin({ns[k] : k \in 1 .. Len(ns)}) ELSE DefaultMax

\* line 190
SliderEnd(ns) ==
    IF ns # << >> THEN SetMax({ns[k] : k \in 1 .. Len(ns)}) ELSE DefaultMax

Build ==
    /\ pc = "bound"
    /\ full_source' =
         [x |-> x_coords, y |-> y_coords, text |-> texts,
          truncated |-> truncated_texts, number |-> numbers,
          size |-> circle_sizes, expansions |-> expansions_list]
    /\ source' = full_source'
    /\ div' = Placeholder
    /\ labels' = FALSE
    /\ slider' = [start |-> min_nonzero, end |-> SliderEnd(numbers),
                  value |-> min_nonzero]
    /\ pc' = "ready"
    /\ UNCHANGED << feature_activations, feature_labels, nonzero_features,
                    top_features, pos, texts, numbers, expansions_map, coords_2d,
                    x_coords, y_coords, circle_sizes, truncated_texts,
                    expansions_list, selected, x_range, y_range >>

(***************************************************************************)
(* Lines 97-122: the selection callback.                                   *)
(***************************************************************************)
\* arr[i] in JavaScript: << >> stands for undefined
JsAt(arr, i) ==
    IF i < Len(arr) THEN << arr[i + 1] >> ELSE << >>

\* `${text}` of an undefined text
UndefinedText ==
    << "u", "n", "d", "e", "f", "i", "n", "e", "d" >>

\* lines 112-115: one <li> per expansion, in list order
RECURSIVE ListItems(_)
ListItems(expansions) ==
    IF expansions = << >> THEN << >>
    ELSE << [li |-> Head(expansions)] >> \o ListItems(Tail(expansions))

\* !expansions || expansions.length === 0
NoExpansions(e) ==
    e = << >> \/ e[1] = << >>

\* callback_js reading the last selected index instead of the first
callback_js_last(src, inds) ==
    IF Len(inds) = 0 THEN Placeholder
    ELSE LET i == inds[Len(inds)]
             expansions == JsAt(src.expansions, i)
             text == IF JsAt(src.text, i) = << >> THEN UndefinedText
                     ELSE JsAt(src.text, i)[1]
         IN  IF NoExpansions(expansions) THEN Panel("none", text, << >>)
             ELSE Panel("list", text, ListItems(expansions[1]))

\* the body of callback_js: the new div.text
callback_js(src, inds) ==
    IF Len(inds) = 0 THEN Placeholder
    ELSE LET i == inds[1]
             expansions == JsAt(src.expansions, i)
             text == IF JsAt(src.text, i) = << >> THEN UndefinedText
                     ELSE JsAt(src.text, i)[1]
         IN  IF NoExpansions(expansions) THEN Panel("none", text, << >>)
             ELSE Panel("list", text, ListItems(expansions[1]))

\* what a tap, a shift-tap or a tap on empty space can select: up to MaxSel
\* distinct rows of the working table
Selections(n) ==
    UNION { { s \in [1 .. k -> 0 .. n - 1] :
                \A a, b \in 1 .. k : a # b => s[a] # s[b] } : k \in 0 .. MaxSel }

\* source.selected.js_on_change("indices", callback_js)
SelectionChange ==
    /\ pc = "ready"
    /\ \E inds \in Selections(Len(source.text)) :
          /\ inds # selected
          /\ selected' = inds
          /\ div' = callback_js(source, inds)
    /\ UNCHANGED << pc, feature_activations, feature_labels, nonzero_features,
                    top_features, pos, texts, numbers, expansions_map, coords_2d,
                    x_coords, y_coords, circle_sizes, truncated_texts,
                    expansions_list, full_source, source, labels, x_range,
                    y_range, slider >>

(***************************************************************************)
(* Lines 166-184: the zoom callback.  A range end is << v >>, or NaN       *)
(* before the range has been computed.                                     *)
(***************************************************************************)
\* a - b in JavaScript
Minus(a, b) ==
    IF a = NaN \/ b = NaN THEN NaN ELSE << a[1] - b[1] >>

\* d <= t for d < t
BelowOrEqual(d, t) ==
    d # NaN /\ d[1] <= t

\* d < t in JavaScript (false for NaN)
Below(d, t) ==
    d # NaN /\ d[1] < t

\* the body of zoom_code: the new labelset.visible
zoom_code(xr, yr) ==
    LET range_width == Minus(xr.end, xr.start)
        range_height == Minus(yr.end, yr.start)
    IN  Below(range_width, threshold_x) /\ Below(range_height, threshold_y)

RangeStarts ==
    { << v >> : v \in 0 .. MaxStart }

RangeEnds ==
    { << v >> : v \in threshold_x - 1 .. MaxRange }

UnchangedByZoom ==
    UNCHANGED << pc, feature_activations, feature_labels, nonzero_features,
                 top_features, pos, texts, numbers, expansions_map, coords_2d,
                 x_coords, y_coords, circle_sizes, truncated_texts,
                 expansions_list, full_source, source, div, selected, slider >>

\* p.x_range.js_on_change("start", zoom_callback)
XStartChange ==
    /\ pc = "ready"
    /\ \E v \in RangeStarts :
          /\ v # x_range.start
          /\ x_range' = [x_range EXCEPT !.start = v]
    /\ labels' = zoom_code(x_range', y_range)
    /\ UNCHANGED y_range
    /\ UnchangedByZoom

\* p.x_range.js_on_change("end", zoom_callback)
XEndChange ==
    /\ pc = "ready"
    /\ \E v \in RangeEnds :
          /\ v # x_range.end
          /\ x_range' = [x_range EXCEPT !.end = v]
    /\ labels' = zoom_code(x_range', y_range)
    /\ UNCHANGED y_range
    /\ UnchangedByZoom

\* p.y_range.js_on_change("start", zoom_callback)
YStartChange ==
    /\ pc = "ready"
    /\ \E v \in RangeStarts :
          /\ v # y_range.start
          /\ y_range' = [y_range EXCEPT !.start = v]
    /\ labels' = zoom_code(x_range, y_range')
    /\ UNCHANGED x_range
    /\ UnchangedByZoom

\* p.y_range.js_on_change("end", zoom_callback)
YEndChange ==
    /\ pc = "ready"
    /\ \E v \in RangeEnds :
          /\ v # y_range.end
          /\ y_range' = [y_range EXCEPT !.end = v]
    /\ labels' = zoom_code(x_range, y_range')
    /\ UNCHANGED x_range
    /\ UnchangedByZoom

(***************************************************************************)
(* Lines 200-239: the slider callback.                                     *)
(***************************************************************************)
\* line 214 with > for >=
KeepsStrict(number, threshold) ==
    number > threshold

\* line 214
Keeps(number, threshold) ==
    number >= threshold

\* lines 213-223 from index i on: the seven new arrays, as one table
RECURSIVE PushRows(_, _, _, _)
PushRows(full_data, threshold, i, new) ==
    IF i >= Len(full_data.x) THEN new
    ELSE PushRows(full_data, threshold, i + 1,
           IF Keeps(full_data.number[i + 1], threshold)
           THEN [x |-> Append(new.x, full_data.x[i + 1]),
                 y |-> Append(new.y, full_data.y[i + 1]),
                 text |-> Append(new.text, full_data.text[i + 1]),
                 truncated |-> Append(new.truncated, full_data.truncated[i + 1]),
                 number |-> Append(new.number, full_data.number[i + 1]),
                 size |-> Append(new.size, full_data.size[i + 1]),
                 expansions |-> Append(new.expansions, full_data.expansions[i + 1])]
           ELSE new)

\* the body of slider_code: the new source.data
slider_code(full_data, threshold) ==
    PushRows(full_data, threshold, 0, EmptyTable)

\* slider.js_on_change("value", slider_callback)
SliderChange ==
    /\ pc = "ready"
    /\ \E v \in slider.start .. slider.end :
          /\ v # slider.value
          /\ slider' = [slider EXCEPT !.value = v]
          /\ source' = slider_code(full_source, v)
    /\ UNCHANGED << pc, feature_activations, feature_labels, nonzero_features,
                    top_features, pos, texts, numbers, expansions_map, coords_2d,
                    x_coords, y_coords, circle_sizes, truncated_texts,
                    expansions_list, full_source, div, selected, labels, x_range,
                    y_range >>

Pipeline ==
    \/ Rank
    \/ AggregateStep
    \/ Bind
    \/ Build

Next ==
    Pipeline

\* the script, from the loaded files to the served page
Spec ==
    Init /\ [][Next]_vars

\* One input, for the served page: a 20-character label on a feature with
\* 53 nonzero examples, a 21-character label on one with 51, a short label
\* on features with 52 and no example above 0.1; the last column labelled.
ViewChoice ==
    [c \in 0 .. NFree - 1 |->
       IF c = 0 THEN [lab |-> << Label20 >>, col |-> ColFew]
       ELSE IF c = 1 THEN [lab |-> << Label21 >>, col |-> ColMany]
       ELSE [lab |-> << LabelShort >>, col |-> ColCold]]

ViewInit ==
    /\ InputFiles(ViewChoice, TRUE)
    /\ Untouched

NextView ==
    \/ Pipeline
    \/ SelectionChange
    \/ SliderChange

\* the served page under selection and slider events
SpecView ==
    ViewInit /\ [][NextView]_vars

NextZoom ==
    \/ Pipeline
    \/ XStartChange
    \/ XEndChange
    \/ YStartChange
    \/ YEndChange

\* the served page under pan and zoom events
SpecZoom ==
    ViewInit /\ [][NextZoom]_vars

(***************************************************************************)
(* Properties.                                                             *)
(***************************************************************************)
\* positions of top_features[100:] already visited whose feature passed
\* line 29 and carries the label
VisitedWith(label) ==
    { p \in 1 .. pos :
        /\ top_features[p] \in DOMAIN feature_labels
        /\ nonzero_features[top_features[p]] > 50
        /\ feature_labels[top_features[p]] = label }

\* the feature that created the bubble of the label
Creator(label) ==
    top_features[CHOOSE p \in VisitedWith(label) : \A q \in VisitedWith(label) : p <= q]

Aggregated ==
    pc = "aggregate" /\ pos = Len(top_features)

IsPrefix(short, long, n) ==
    /\ Len(short) = n
    /\ n <= Len(long)
    /\ \A k \in 1 .. n : short[k] = long[k]

\* C1: the binding step leaves the label list, the count list and the two
\* coordinate lists as the prefixes of length min(bubbles, coordinate rows)
\* of what they were before it, and every derived column (size, truncated
\* text, expansions) has that length too; the lengths stay equal afterwards.
C1_BindingTruncates ==
    /\ [][ (pc = "aggregate" /\ pc' = "bound") =>
             LET n == IF Len(texts) <= Len(coords_2d') THEN Len(texts)
                      ELSE Len(coords_2d')
             IN  /\ IsPrefix(texts', texts, n)
                 /\ IsPrefix(numbers', numbers, n)
                 /\ IsPrefix(x_coords', [k \in 1 .. Len(coords_2d') |-> coords_2d'[k][1]], n)
                 /\ IsPrefix(y_coords', [k \in 1 .. Len(coords_2d') |-> coords_2d'[k][2]], n)
                 /\ Len(circle_sizes') = n
                 /\ Len(truncated_texts') = n
                 /\ Len(expansions_list') = n ]_vars
    /\ [](pc \in {"bound", "ready"} =>
            /\ Len(texts) = Len(numbers)
            /\ Len(texts) = Len(x_coords)
            /\ Len(texts) = Len(y_coords)
            /\ Len(texts) = Len(circle_sizes)
            /\ Len(texts) = Len(truncated_texts)
            /\ Len(texts) = Len(expansions_list)
            /\ Len(texts) <= Len(coords_2d))

\* bubbles were dropped by the binding step, and some remain
C1_Witness ==
    /\ pc = "bound"
    /\ Len(texts) > 0
    /\ Len(texts) < Cardinality(DOMAIN expansions_map)
    /\ Len(texts) = Len(coords_2d)

\* C2 as stated: once the loop has ended, every bubble's count is the
\* largest nonzero count among ALL features that carry the bubble's label.
C2_MaxOverAllFeatures ==
    Aggregated =>
      \A k \in 1 .. Len(texts) :
        LET sharing == {f \in DOMAIN feature_labels : feature_labels[f] = texts[k]}
        IN  /\ \A f \in sharing : NonzeroCount(f) <= numbers[k]
            /\ \E f \in sharing : NonzeroCount(f) = numbers[k]

\* C2 amended: every bubble's count is the largest nonzero count among the
\* features the loop has visited that carry its label, a visited feature
\* being one ranked at position 100 or later, labelled, and with a nonzero
\* count above 50.
C2_MaxOverVisited ==
    pc \in {"aggregate", "bound", "ready"} =>
      \A k \in 1 .. Len(texts) :
        /\ \A p \in VisitedWith(texts[k]) :
              nonzero_features[top_features[p]] <= numbers[k]
        /\ \E p \in VisitedWith(texts[k]) :
              nonzero_features[top_features[p]] = numbers[k]

\* two visited features of different counts share a bubble's label
C2_Witness ==
    /\ Aggregated
    /\ \E k \in 1 .. Len(texts) :
         \E p, q \in VisitedWith(texts[k]) :
           nonzero_features[top_features[p]] # nonzero_features[top_features[q]]

\* C3: a label's expansions are built when its bubble is created and never
\* change afterwards; they are at most 10 examples, each with activation
\* above 0.1 on the creating feature, in non-increasing order of that
\* activation, and no example above 0.1 is left out unless 10 examples at
\* least as active are listed.
C3_Expansions ==
    /\ [](\A label \in DOMAIN expansions_map :
            LET i == Creator(label)
                e == expansions_map[label]
                row(k) == e[k].question
            IN  /\ Len(e) <= 10
                /\ \A k \in 1 .. Len(e) :
                     /\ e[k] = ind_to_question[row(k)]
                     /\ Activation(row(k), i) > 100
                /\ \A k \in 1 .. Len(e) - 1 :
                     Activation(row(k), i) >= Activation(row(k + 1), i)
                /\ \A k, m \in 1 .. Len(e) : k # m => row(k) # row(m)
                /\ \A j \in Rows :
                     (Activation(j, i) > 100 /\ \A k \in 1 .. Len(e) : row(k) # j)
                       => /\ Len(e) = 10
                          /\ Activation(j, i) <= Activation(row(10), i))
    /\ [][ \A label \in DOMAIN expansions_map :
             /\ label \in DOMAIN expansions_map'
             /\ expansions_map'[label] = expansions_map[label] ]_vars
    /\ [](pc \in {"bound", "ready"} =>
            \A k \in 1 .. Len(texts) : expansions_list[k] = expansions_map[texts[k]])

\* a later feature with other examples shares the label of a bubble whose
\* expansions came from the first one
C3_Witness ==
    /\ Aggregated
    /\ \E label \in DOMAIN expansions_map :
         /\ expansions_map[label] # << >>
         /\ \E p \in VisitedWith(label) :
              /\ top_features[p] # Creator(label)
              /\ feature_activations[top_features[p]]
                   # feature_activations[Creator(label)]

\* the rows of the table whose count is at least v: KeptIndex(t, v, m) is
\* the m-th of them
KeptRows(t, v) ==
    { k \in 1 .. Len(t.number) : t.number[k] >= v }

KeptIndex(t, v, m) ==
    CHOOSE k \in KeptRows(t, v) :
      Cardinality({ j \in KeptRows(t, v) : j < k }) = m - 1

Columns ==
    {"x", "y", "text", "truncated", "number", "size", "expansions"}

\* C4: on the served page the working table is the full table restricted,
\* in order and in all seven columns, to the rows whose count is at least
\* the current slider value, whatever the earlier values were; the full
\* table stays the table the script built.
C4_WorkingTableIsFilter ==
    pc = "ready" =>
      /\ full_source = [x |-> x_coords, y |-> y_coords, text |-> texts,
                        truncated |-> truncated_texts, number |-> numbers,
                        size |-> circle_sizes, expansions |-> expansions_list]
      /\ \A c \in Columns :
           /\ Len(source[c]) = Cardinality(KeptRows(full_source, slider.value))
           /\ \A m \in 1 .. Len(source[c]) :
                source[c][m] = full_source[c][KeptIndex(full_source, slider.value, m)]

\* the slider has removed some rows and kept others
C4_Witness ==
    /\ pc = "ready"
    /\ slider.value > 5
    /\ Len(source.text) > 0
    /\ Len(source.text) < Len(full_source.text)

Narrow(r, t) ==
    /\ r.start # << >>
    /\ r.end # << >>
    /\ r.end[1] - r.start[1] < t

\* C6: after every change of a range end, labels are visible exactly when
\* the width and the height are both strictly below 5; at all times,
\* visible labels imply both are below 5.
C6_LabelsFollowZoom ==
    /\ [][ (x_range' # x_range \/ y_range' # y_range) =>
             (labels' <=> (Narrow(x_range', 5) /\ Narrow(y_range', 5))) ]_vars
    /\ [](labels => (Narrow(x_range, 5) /\ Narrow(y_range, 5)))

\* the width is exactly 5, the height is below 5, labels are hidden
C6_Witness ==
    /\ pc = "ready"
    /\ x_range.start # << >> /\ x_range.end # << >>
    /\ x_range.end[1] - x_range.start[1] = 5
    /\ Narrow(y_range, 5)
    /\ ~labels

\* C7: the slider is created with start 5 and value 5; its end is the
\* largest count left after binding, or 100 when no bubble is left.
C7_SliderBounds ==
    pc = "ready" =>
      /\ slider.start = 5
      /\ slider.value = 5
      /\ IF Len(numbers) = 0 THEN slider.end = 100
         ELSE /\ \E k \in 1 .. Len(numbers) : numbers[k] = slider.end
              /\ \A k \in 1 .. Len(numbers) : numbers[k] <= slider.end

\* bubbles existed, binding dropped them all, the slider ends at 100
C7_Witness ==
    /\ pc = "ready"
    /\ DOMAIN expansions_map # {}
    /\ numbers = << >>
    /\ slider.end = 100

\* C8: a label of at most 20 characters is its own truncated text; a longer
\* one gives its first 20 characters followed by "...".
C8_TruncatedText ==
    pc \in {"bound", "ready"} =>
      \A k \in 1 .. Len(texts) :
        LET t == texts[k]
            u == truncated_texts[k]
        IN  IF Len(t) <= 20 THEN u = t
            ELSE /\ Len(u) = 23
                 /\ \A c \in 1 .. 20 : u[c] = t[c]
                 /\ \A c \in 21 .. 23 : u[c] = "."

\* a label of exactly 20 characters and one of 21 are both bound
C8_Witness ==
    /\ pc = "bound"
    /\ \E k, m \in 1 .. Len(texts) : Len(texts[k]) = 20 /\ Len(texts[m]) = 21

\* C9 as stated: while a selection exists, the panel shows the label and the
\* expansions of the row now at the first selected index of the working
\* table.
C9_PanelTracksWorkingTable ==
    (pc = "ready" /\ selected # << >>) =>
      /\ selected[1] < Len(source.text)
      /\ div.text = source.text[selected[1] + 1]
      /\ Len(div.items) = Len(source.expansions[selected[1] + 1])
      /\ \A k \in 1 .. Len(div.items) :
           div.items[k] = [li |-> source.expansions[selected[1] + 1][k]]

\* C10: every bubble's count is above 50, labels are pairwise distinct,
\* counts are non-increasing in list order, each count is the count of the
\* feature that created the bubble, the duplicate-label branch never
\* changes a stored count, and on the served page with the slider at 5
\* every row of the full table passes the filter and the working table is
\* the full table.
C10_CountsOrdered ==
    /\ [](pc \in {"aggregate", "bound", "ready"} =>
            /\ \A k \in 1 .. Len(numbers) : numbers[k] > 50
            /\ \A k, m \in 1 .. Len(texts) : k # m => texts[k] # texts[m]
            /\ \A k \in 1 .. Len(numbers) - 1 : numbers[k] >= numbers[k + 1]
            /\ Len(numbers) = Len(texts)
            /\ \A k \in 1 .. Len(texts) :
                 numbers[k] = nonzero_features[Creator(texts[k])])
    /\ [][ pc' = "aggregate" =>
             \A k \in 1 .. Len(numbers) : numbers'[k] = numbers[k] ]_vars
    /\ [](pc = "ready" /\ slider.value = 5 =>
            /\ \A k \in 1 .. Len(full_source.number) :
                 full_source.number[k] >= slider.value
            /\ source = full_source)

\* the duplicate-label branch has just run for a feature of smaller count
C10_Witness ==
    /\ pc = "aggregate"
    /\ pos >= 2
    /\ LET i == top_features[pos]
       IN  /\ i \in DOMAIN feature_labels
           /\ nonzero_features[i] > 50
           /\ i # Creator(feature_labels[i])
           /\ nonzero_features[i] < nonzero_features[Creator(feature_labels[i])]

====
